---- MODULE Spec2Model ----
(***************************************************************************)
(* Drag positioning of absolutely positioned elements inside a grid drop   *)
(* zone: the DraggableDirective of the drag-drop-engage steps (the         *)
(* grid-parent variant, 04-drag-drop-engage) and the earlier variant that  *)
(* positions the element in its document-level drop handler                *)
(* (03-drag-drop-engage, second directive of the file); of the variant     *)
(* that returns viewport coordinates (03-drag-drop-engage, first directive *)
(* of the file) the resolver alone.                                        *)
(*                                                                         *)
(* Pixel coordinates are integers.  A JavaScript number that may be NaN    *)
(* (the value returned by calculatePosition) is a record [nan, val].       *)
(***************************************************************************)
EXTENDS Integers, FiniteSets, Sequences, TLC

(***************************************************************************)
(* Bounds of the model.                                                    *)
(***************************************************************************)
MaxPointer == 6      \* resolver inputs: pointer coordinates MinPointer..MaxPointer
MaxZone == 4         \* resolver inputs: drop zone sides MinZone..MaxZone
MaxElem == 4         \* resolver inputs: element sides MinElem..MaxElem
MaxCell == 3         \* resolver inputs: positive cell sizes 2..MaxCell
MaxGestureX == 4     \* gestures: event.clientX in 0..MaxGestureX
MaxGestureY == 1     \* gestures: event.clientY in 0..MaxGestureY
MaxLeft == 1         \* gestures: initial left/top of element A, 0..MaxLeft
GestureCell == 2     \* gestures: the cell size of the grid
MaxTreeNodes == 4    \* drop-zone lookup: elements of the document

MinPointer == 0 - 2
MinZone == MaxZone - 1
MinElem == MaxElem - 2

(***************************************************************************)
(* JavaScript numbers                                                      *)
(***************************************************************************)
Num(n) == [nan |-> FALSE, val |-> n]
NaN == [nan |-> TRUE, val |-> 0]

\* a < b and a > b are false as soon as one side is NaN
JsLt(a, b) == ~a.nan /\ ~b.nan /\ a.val < b.val
JsGt(a, b) == ~a.nan /\ ~b.nan /\ a.val > b.val
JsAdd(a, b) == IF a.nan \/ b.nan THEN NaN ELSE Num(a.val + b.val)
JsSub(a, b) == IF a.nan \/ b.nan THEN NaN ELSE Num(a.val - b.val)

\* floor(a / b) for integers a and b, b # 0, either sign of b
FloorDiv(a, b) == IF b > 0 THEN a \div b ELSE (0 - a) \div (0 - b)

\* Math.round(a / b) for b # 0: the nearest integer, a tie going to +infinity,
\* which is floor(a / b + 1/2) = floor((2a + b) / 2b)
RoundDiv_Truncating(a, b) == FloorDiv(a, b)
RoundDiv(a, b) == FloorDiv(2 * a + b, 2 * b)

\* Math.round(x / cell) * cell.  With cell = 0 the quotient is +-Infinity or
\* NaN, Math.round keeps it, and the product with 0 is NaN.
RoundToCell(x, cell) ==
    IF x.nan THEN NaN
    ELSE IF cell = 0 THEN NaN
    ELSE Num(RoundDiv(x.val, cell) * cell)

\* Math.floor(x / cell) * cell
FloorToCell(x, cell) ==
    IF x.nan THEN NaN
    ELSE IF cell = 0 THEN NaN
    ELSE Num(FloorDiv(x.val, cell) * cell)

VARIABLES
    variant,        \* which directive is attached: "grid04", "drop03"
                    \* or "abs03"
    dom,            \* the document: [parent, ngGrid] over its elements
    cellSize,       \* GridDirective.cellSize, copied to _cellSize
    gridRect,       \* bounding rect of the grid: [left, top, width, height]
    elemSize,       \* [width, height] of each draggable element
    dropZoneOffset, \* _dropZoneOffset of each instance (abs03)
    left, top,      \* style.left / style.top of each element, in px
    mouseOffset,    \* _mouseOffset (_offset in drop03) of each instance
    lastPosition,   \* _lastPosition of each instance
    gesture,        \* the browser's drag operation: [phase, src, accepted]
    call            \* the last drag handler's call of calculatePosition

vars == <<variant, dom, cellSize, gridRect, elemSize, dropZoneOffset, left,
          top, mouseOffset, lastPosition, gesture, call>>

config == <<variant, dom, cellSize, gridRect, elemSize, dropZoneOffset>>

(***************************************************************************)
(* The document: a parent-linked tree of elements.  In the page of the     *)
(* gestures the grid carries the ngGrid attribute and holds the two        *)
(* draggable elements; aside is an element outside every grid.             *)
(***************************************************************************)
Instances == {"A", "B"}
NoNode == "null"
Nodes == {"body", "grid", "elA", "elB", "aside"}
Page ==
    [parent |-> [n \in Nodes |->
                    CASE n = "body" -> NoNode
                      [] n = "grid" -> "body"
                      [] n = "aside" -> "body"
                      [] OTHER -> "grid"],
     ngGrid |-> [n \in Nodes |-> n = "grid"]]
parentElement == dom.parent
hasAttributeNgGrid == dom.ngGrid
nativeElement == [i \in Instances |-> IF i = "A" THEN "elA" ELSE "elB"]

RECURSIVE WalkUp(_), WalkUp_Outermost(_)
WalkUp_Outermost(target) ==
    IF target = NoNode THEN NoNode
    ELSE LET outer == WalkUp_Outermost(parentElement[target])
         IN  IF outer # NoNode THEN outer
             ELSE IF hasAttributeNgGrid[target] THEN target
             ELSE NoNode
WalkUp(target) ==
    IF target = NoNode THEN NoNode
    ELSE IF hasAttributeNgGrid[target] THEN target
    ELSE WalkUp(parentElement[target])

\* the first element from event.target outward that has the ngGrid attribute
getDropZone(event) == WalkUp(event.target)

\* the same walk in the drop-positioning variant, returning a boolean
canDrop(event) == WalkUp(event.target) # NoNode

Event(x, y, t) == [clientX |-> x, clientY |-> y, target |-> t]
NoCall == [made |-> FALSE, inst |-> "A", event |-> Event(0, 0, NoNode),
           zone |-> NoNode, position |-> [x |-> Num(0), y |-> Num(0)]]
Idle == [phase |-> "idle", src |-> "A", accepted |-> FALSE]

\* element.getBoundingClientRect(): the element is absolutely positioned in
\* the relatively positioned grid (in drop03, in a containing block at the
\* same place)
getBoundingClientRect(i) ==
    [left |-> gridRect.left + left[i], top |-> gridRect.top + top[i],
     width |-> elemSize[i].width, height |-> elemSize[i].height]

(***************************************************************************)
(* calculatePosition, one axis: client is event.clientX (clientY), offset  *)
(* _mouseOffset.x (.y), size element.width (.height), zoneSize             *)
(* dropZone.width (.height).                                               *)
(***************************************************************************)
ClampLow_Missing(q) == q
ClampLow(q) == IF JsLt(q, Num(0)) THEN Num(0) ELSE q

ClampHigh_NoFloor(q, cell, size, zoneSize) ==
    IF JsGt(JsAdd(q, Num(size)), Num(zoneSize))
    THEN JsSub(q, JsSub(JsAdd(q, Num(size)), Num(zoneSize)))
    ELSE q
ClampHigh_PinsToOrigin(q, cell, size, zoneSize) ==
    IF JsGt(JsAdd(q, Num(size)), Num(zoneSize)) THEN Num(0) ELSE q
ClampHigh(q, cell, size, zoneSize) ==
    IF JsGt(JsAdd(q, Num(size)), Num(zoneSize))
    THEN LET delta == JsSub(JsAdd(q, Num(size)), Num(zoneSize))
         IN  FloorToCell(JsSub(q, delta), cell)
    ELSE q

CalcAxis(client, offset, cell, size, zoneSize) ==
    LET raw == Num(client + offset)
        snapped == RoundToCell(raw, cell)
    IN  ClampHigh(ClampLow(snapped), cell, size, zoneSize)

\* calculatePosition of the variant that returns viewport coordinates, one
\* axis: zoneOffset is _dropZoneOffset.x (.y)
CalcAxisAbs(client, offset, cell, size, zoneSize, zoneOffset) ==
    LET raw == Num(client + offset - zoneOffset)
        snapped == JsAdd(RoundToCell(raw, cell), Num(zoneOffset))
        low == IF JsLt(snapped, Num(zoneOffset)) THEN Num(zoneOffset) ELSE snapped
    IN  IF JsGt(JsAdd(low, Num(size)), Num(zoneOffset + zoneSize))
        THEN LET delta == JsSub(JsAdd(low, Num(size)), Num(zoneOffset + zoneSize))
                 local == JsSub(low, JsAdd(Num(zoneOffset), delta))
             IN  JsAdd(FloorToCell(local, cell), Num(zoneOffset))
        ELSE low

calculatePosition(i, event, element) ==
    IF getDropZone(event) = NoNode
    THEN [x |-> Num(0), y |-> Num(0)]
    ELSE IF variant = "abs03"
    THEN [x |-> CalcAxisAbs(event.clientX, mouseOffset[i].x, cellSize,
                            element.width, gridRect.width, dropZoneOffset[i].x),
          y |-> CalcAxisAbs(event.clientY, mouseOffset[i].y, cellSize,
                            element.height, gridRect.height, dropZoneOffset[i].y)]
    ELSE [x |-> CalcAxis(event.clientX, mouseOffset[i].x, cellSize,
                         element.width, gridRect.width),
          y |-> CalcAxis(event.clientY, mouseOffset[i].y, cellSize,
                         element.height, gridRect.height)]

(***************************************************************************)
(* Event handlers.  Each returns the new value of the fields it assigns.   *)
(***************************************************************************)
HasDragListener == variant = "grid04"

dragStartOffset_ViewportOnly(i, event) ==
    LET elementPos == getBoundingClientRect(i)
    IN  [x |-> elementPos.left - event.clientX,
         y |-> elementPos.top - event.clientY]
\* dragStart: the grab offset of instance i (gridPos is a DOMRect, so the
\* early return on !gridPos is never taken)
dragStartOffset(i, event) ==
    LET elementPos == getBoundingClientRect(i)
    IN  IF variant = "grid04"
        THEN [x |-> elementPos.left - event.clientX - gridRect.left,
              y |-> elementPos.top - event.clientY - gridRect.top]
        ELSE [x |-> elementPos.left - event.clientX,
              y |-> elementPos.top - event.clientY]

\* element.style.left = value + 'px': a declaration that is not a length
\* ('NaNpx') is dropped and the old value stays
SetPx(old, value) == IF value.nan THEN old ELSE value.val

dragOver_Anywhere(i, event) == TRUE
\* dragOver of one instance: whether it calls event.preventDefault()
dragOver(i, event) ==
    IF variant = "grid04" THEN getDropZone(event) # NoNode ELSE canDrop(event)

\* drop of instance i in the drop-positioning variant: the new [left, top]
dropPosition(i, event) ==
    [left |-> event.clientX + mouseOffset[i].x,
     top |-> event.clientY + mouseOffset[i].y]

(***************************************************************************)
(* Actions: one per event the browser dispatches.                          *)
(***************************************************************************)
\* dragstart on the element of instance i
dragStart(i, event) ==
    /\ gesture.phase = "idle"
    /\ mouseOffset' = [mouseOffset EXCEPT ![i] = dragStartOffset(i, event)]
    /\ gesture' = [phase |-> "started", src |-> i, accepted |-> FALSE]
    /\ call' = NoCall
    /\ UNCHANGED <<config, left, top, lastPosition>>

\* drag on the element of instance i (only the variants that listen to it)
drag(i, event) ==
    /\ gesture.phase # "idle"
    /\ gesture.src = i
    /\ HasDragListener
    /\ gesture' = [gesture EXCEPT !.phase = "moving"]
    /\ IF event.clientX = lastPosition[i].x /\ event.clientY = lastPosition[i].y
       THEN /\ call' = [NoCall EXCEPT !.inst = i, !.event = event]
            /\ UNCHANGED <<left, top, lastPosition>>
       ELSE LET position == calculatePosition(i, event, getBoundingClientRect(i))
            IN  /\ lastPosition' = [lastPosition EXCEPT
                        ![i] = [x |-> event.clientX, y |-> event.clientY]]
                /\ left' = [left EXCEPT ![i] = SetPx(left[i], position.x)]
                /\ top' = [top EXCEPT ![i] = SetPx(top[i], position.y)]
                /\ call' = [made |-> TRUE, inst |-> i, event |-> event,
                            zone |-> getDropZone(event),
                            position |-> position]
    /\ UNCHANGED <<config, mouseOffset>>

\* dragover on the document: the listener of every instance runs
dragOverDocument(event) ==
    /\ gesture.phase # "idle"
    /\ gesture' = [gesture EXCEPT
            !.accepted = \E i \in Instances : dragOver(i, event)]
    /\ call' = NoCall
    /\ UNCHANGED <<config, left, top, mouseOffset, lastPosition>>

\* drop on the document (fired when the last dragover was accepted): the
\* listener of every instance runs
dropDocument(event) ==
    /\ gesture.phase # "idle"
    /\ gesture.accepted
    /\ gesture' = Idle
    /\ call' = NoCall
    /\ IF variant = "drop03"
       THEN /\ left' = [i \in Instances |-> dropPosition(i, event).left]
            /\ top' = [i \in Instances |-> dropPosition(i, event).top]
       ELSE UNCHANGED <<left, top>>
    /\ UNCHANGED <<config, mouseOffset, lastPosition>>

\* the drag operation ends without a drop; no instance listens to dragend
dragEnd ==
    /\ gesture.phase # "idle"
    /\ ~gesture.accepted
    /\ gesture' = Idle
    /\ call' = NoCall
    /\ UNCHANGED <<config, left, top, mouseOffset, lastPosition>>

(***************************************************************************)
(* Specification of the gestures.                                          *)
(***************************************************************************)
DefaultCellSize == 50
GestureX == 0..MaxGestureX
GestureY == 0..MaxGestureY
Origin == [x |-> 0, y |-> 0]

\* pointers inside the element: where a dragstart on it can happen
GrabEvents(i) ==
    LET r == getBoundingClientRect(i)
    IN  {Event(x, y, nativeElement[i]) :
            x \in {px \in GestureX : r.left <= px /\ px < r.left + r.width},
            y \in {py \in GestureY : r.top <= py /\ py < r.top + r.height}}

\* drag events: dispatched at the dragged element, or carrying a target
\* that has no element with the ngGrid attribute among its ancestors (the
\* case calculatePosition answers with { x: 0, y: 0 })
DragEvents(i) ==
    {Event(x, y, t) : x \in GestureX, y \in GestureY,
                      t \in {nativeElement[i], "aside"}}

\* dragover events: the handlers read the target only
DragOverEvents == {Event(0, 0, t) : t \in Nodes}

\* drop events: fired at the grid that accepted the dragover
DropEvents == {Event(x, y, "grid") : x \in GestureX, y \in GestureY}

Init ==
    /\ variant \in {"grid04", "drop03"}
    /\ dom = Page
    /\ dropZoneOffset = [i \in Instances |-> Origin]
    /\ cellSize = IF variant = "grid04" THEN GestureCell ELSE DefaultCellSize
    /\ gridRect = [left |-> 1, top |-> 0, width |-> 4, height |-> 4]
    /\ elemSize = [i \in Instances |-> [width |-> 2, height |-> 1]]
    \* grid04: left = _cellSize * leftOffset for any number leftOffset;
    \* drop03: wherever the stylesheet puts the element
    /\ \E o \in 0..MaxLeft :
          /\ left = [i \in Instances |-> IF i = "A" THEN o ELSE 0]
          /\ top = [i \in Instances |-> IF i = "A" THEN o ELSE 0]
    /\ mouseOffset = [i \in Instances |-> Origin]
    /\ lastPosition = [i \in Instances |-> Origin]
    /\ gesture = Idle
    /\ call = NoCall

Next ==
    \/ \E i \in Instances : \E event \in GrabEvents(i) : dragStart(i, event)
    \/ \E i \in Instances : \E event \in DragEvents(i) : drag(i, event)
    \/ \E event \in DragOverEvents : dragOverDocument(event)
    \/ \E event \in DropEvents : dropDocument(event)
    \/ dragEnd

Spec == Init /\ [][Next]_vars

(***************************************************************************)
(* Specification of the resolver alone: calculatePosition of instance A    *)
(* (grid04) applied to one event, for every instance state and geometry    *)
(* within the bounds, and for the geometry of the documented scenarios.    *)
(***************************************************************************)
Scenario == [zone |-> 300, elem |-> 50]
ScenarioPointers == {0 - 10, 5, 83, 91, 290}
CalcCells == {0 - 2, 0} \cup 2..MaxCell
CalcOffsets == {0 - 1, 0}

Resolve(i, event) ==
    /\ ~call.made
    /\ call' = [made |-> TRUE, inst |-> i, event |-> event,
                zone |-> getDropZone(event),
                position |-> calculatePosition(i, event, getBoundingClientRect(i))]
    /\ UNCHANGED <<config, left, top, mouseOffset, lastPosition, gesture>>

CalcEvents ==
    IF gridRect.width = Scenario.zone
    THEN {Event(x, y, t) : x \in ScenarioPointers, y \in ScenarioPointers,
                           t \in {"elA", "aside"}}
    ELSE {Event(x, y, t) : x \in MinPointer..MaxPointer,
                           y \in MinPointer..MaxPointer, t \in {"elA", "aside"}}

InitCalc ==
    /\ variant = "grid04"
    /\ dom = Page
    /\ dropZoneOffset = [i \in Instances |-> Origin]
    /\ \/ /\ cellSize \in CalcCells
          /\ \E w, h \in MinZone..MaxZone :
                gridRect = [left |-> 0, top |-> 0, width |-> w, height |-> h]
          /\ \E w, h \in MinElem..MaxElem :
                elemSize = [i \in Instances |-> [width |-> w, height |-> h]]
          /\ \E ox, oy \in CalcOffsets :
                mouseOffset = [i \in Instances |-> [x |-> ox, y |-> oy]]
       \/ /\ cellSize \in {0, DefaultCellSize}
          /\ gridRect = [left |-> 0, top |-> 0, width |-> Scenario.zone,
                         height |-> Scenario.zone]
          /\ elemSize = [i \in Instances |->
                            [width |-> Scenario.elem, height |-> Scenario.elem]]
          /\ mouseOffset = [i \in Instances |-> Origin]
    /\ left = [i \in Instances |-> 0]
    /\ top = [i \in Instances |-> 0]
    /\ lastPosition = [i \in Instances |-> Origin]
    /\ gesture = Idle
    /\ call = NoCall

NextCalc == \E event \in CalcEvents : Resolve("A", event)

SpecCalc == InitCalc /\ [][NextCalc]_vars

(***************************************************************************)
(* Specification of the resolver of the variant that returns viewport      *)
(* coordinates: the element starts anywhere inside the drop zone,          *)
(* ngAfterViewInit stores its bounding rect as _dropZoneOffset, and        *)
(* calculatePosition of instance A is applied to one event.                *)
(***************************************************************************)
\* ngAfterViewInit: _dropZoneOffset = { x: rect.left, y: rect.top }
ngAfterViewInitOffset(i) ==
    [x |-> getBoundingClientRect(i).left, y |-> getBoundingClientRect(i).top]

\* left (top) values that keep an element of the given size inside the zone
Inside(size, zoneSize) == IF size <= zoneSize THEN 0..(zoneSize - size) ELSE {0}

InitAbs ==
    /\ variant = "abs03"
    /\ dom = Page
    /\ cellSize \in 2..MaxCell
    /\ \E w, h \in MinZone..MaxZone :
          gridRect = [left |-> 1, top |-> 1, width |-> w, height |-> h]
    /\ \E w, h \in MinElem..MaxElem :
          elemSize = [i \in Instances |-> [width |-> w, height |-> h]]
    /\ \E l \in Inside(elemSize["A"].width, gridRect.width) :
          left = [i \in Instances |-> l]
    /\ \E t \in Inside(elemSize["A"].height, gridRect.height) :
          top = [i \in Instances |-> t]
    /\ dropZoneOffset = [i \in Instances |-> ngAfterViewInitOffset(i)]
    /\ \E ox, oy \in CalcOffsets :
          mouseOffset = [i \in Instances |-> [x |-> ox, y |-> oy]]
    /\ lastPosition = [i \in Instances |-> Origin]
    /\ gesture = Idle
    /\ call = NoCall

NextAbs == \E event \in CalcEvents : Resolve("A", event)

SpecAbs == InitAbs /\ [][NextAbs]_vars

(***************************************************************************)
(* Specification of the drop-zone lookup: calculatePosition of instance A  *)
(* called for a target in any document of up to MaxTreeNodes elements,     *)
(* every element having a parent among the earlier elements or none, and   *)
(* any subset of the elements carrying the ngGrid attribute.               *)
(***************************************************************************)
NodeOrder == <<"body", "grid", "elA", "aside", "elB">>
TreeNodes == {NodeOrder[k] : k \in 1..MaxTreeNodes}
Earlier(n) == {NodeOrder[j] : j \in {k \in 1..MaxTreeNodes :
                                 \E m \in (k + 1)..MaxTreeNodes : NodeOrder[m] = n}}
Trees ==
    {[parent |-> p, ngGrid |-> g] :
        p \in {f \in [TreeNodes -> TreeNodes \cup {NoNode}] :
                  \A n \in TreeNodes : f[n] \in Earlier(n) \cup {NoNode}},
        g \in [TreeNodes -> BOOLEAN]}

InitTree ==
    /\ variant = "grid04"
    /\ dom \in Trees
    /\ dropZoneOffset = [i \in Instances |-> Origin]
    /\ cellSize = GestureCell
    /\ gridRect = [left |-> 0, top |-> 0, width |-> MaxZone, height |-> MaxZone]
    /\ elemSize = [i \in Instances |-> [width |-> MinElem, height |-> MinElem]]
    /\ left = [i \in Instances |-> 0]
    /\ top = [i \in Instances |-> 0]
    /\ mouseOffset = [i \in Instances |-> Origin]
    /\ lastPosition = [i \in Instances |-> Origin]
    /\ gesture = Idle
    /\ call = NoCall

\* events targeted at any element of the document
TreeEvents == {Event(0, 0, t) : t \in DOMAIN dom.parent}

NextTree == \E event \in TreeEvents : Resolve("A", event)

SpecTree == InitTree /\ [][NextTree]_vars

(***************************************************************************)
(* Properties of the resolver, checked under SpecCalc.                     *)
(***************************************************************************)
ZoneFound == getDropZone(call.event) # NoNode
ElementFits ==
    /\ elemSize[call.inst].width <= gridRect.width
    /\ elemSize[call.inst].height <= gridRect.height
RawX == call.event.clientX + mouseOffset[call.inst].x
RawY == call.event.clientY + mouseOffset[call.inst].y
MaxX == gridRect.width - elemSize[call.inst].width
MaxY == gridRect.height - elemSize[call.inst].height

\* the upper-bound branch is taken on the x axis (y axis) of the last call
OverflowsX ==
    /\ cellSize # 0
    /\ ClampLow(RoundToCell(Num(RawX), cellSize)).val
          + elemSize[call.inst].width > gridRect.width
OverflowsY ==
    /\ cellSize # 0
    /\ ClampLow(RoundToCell(Num(RawY), cellSize)).val
          + elemSize[call.inst].height > gridRect.height

\* C1: with cellSize > 0, a drop zone found and an element that fits, the
\* point returned by calculatePosition satisfies 0 <= x <= zone width -
\* element width and 0 <= y <= zone height - element height.
C1_Clamping ==
    (call.made /\ cellSize > 0 /\ ZoneFound /\ ElementFits) =>
        /\ ~call.position.x.nan /\ ~call.position.y.nan
        /\ 0 <= call.position.x.val /\ call.position.x.val <= MaxX
        /\ 0 <= call.position.y.val /\ call.position.y.val <= MaxY

\* a call clamped at the lower bound on x and at the upper bound on y
C1_Witness ==
    /\ call.made /\ cellSize > 0 /\ ZoneFound /\ ElementFits
    /\ RawX < 0 - cellSize
    /\ OverflowsY
    /\ call.position.x.val = 0
    /\ call.position.y.val <= MaxY

\* C2: with cellSize = c > 0 both coordinates returned by calculatePosition
\* are multiples of c, whichever branch produced them.
C2_GridAlignment ==
    (call.made /\ cellSize > 0) =>
        /\ ~call.position.x.nan /\ ~call.position.y.nan
        /\ call.position.x.val % cellSize = 0
        /\ call.position.y.val % cellSize = 0

\* a call that took the upper-bound branch where zone width - element width
\* is no multiple of the cell size, so that the floor moved the coordinate
C2_Witness ==
    /\ call.made /\ cellSize > 0 /\ ZoneFound /\ ElementFits
    /\ OverflowsX
    /\ MaxX % cellSize # 0
    /\ call.position.x.val < MaxX

\* C3 (as claimed): an element larger than the drop zone on an axis gets
\* coordinate 0 on that axis, and no coordinate is ever negative.
C3_OversizedPinsToOrigin ==
    (call.made /\ cellSize > 0 /\ ZoneFound) =>
        /\ (elemSize[call.inst].width > gridRect.width
                => call.position.x = Num(0))
        /\ (elemSize[call.inst].height > gridRect.height
                => call.position.y = Num(0))
        /\ call.position.x.val >= 0
        /\ call.position.y.val >= 0

\* the raw target with only the bounds clamps applied
ClampOnly(raw, size, zoneSize) ==
    LET low == IF raw < 0 THEN 0 ELSE raw
    IN  IF low + size > zoneSize THEN zoneSize - size ELSE low

\* C4 (as claimed): with cellSize <= 0 calculatePosition returns the raw
\* target pointer + offset with only the bounds clamps applied, a
\* well-defined number; zone 300x300, element 50x50, cellSize 0, offset
\* (0,0), pointer (-10,5) gives (0,5).
C4_SnappingDisabled ==
    (call.made /\ cellSize <= 0 /\ ZoneFound) =>
        /\ call.position.x =
              Num(ClampOnly(RawX, elemSize[call.inst].width, gridRect.width))
        /\ call.position.y =
              Num(ClampOnly(RawY, elemSize[call.inst].height, gridRect.height))

\* Reference of the pipeline, written from its description: the integer k
\* nearest to raw / c (a tie going up), times c; at least 0; and, when the
\* element then overflows, the largest multiple of c not above limit.
RoundHalfUp(raw, c) ==
    CHOOSE k \in (0 - (2 * raw * raw + 2))..(2 * raw * raw + 2) :
        /\ (2 * k - 1) * c <= 2 * raw
        /\ 2 * raw < (2 * k + 1) * c
LargestMultipleUpTo(limit, c) ==
    CHOOSE m \in (limit - c + 1)..limit : m % c = 0
Reference(raw, c, size, zoneSize) ==
    LET q == RoundHalfUp(raw, c) * c
        low == IF q > 0 THEN q ELSE 0
    IN  IF low + size > zoneSize
        THEN LargestMultipleUpTo(zoneSize - size, c)
        ELSE low

IsScenario(px, py) ==
    /\ call.made /\ ZoneFound
    /\ gridRect.width = Scenario.zone /\ gridRect.height = Scenario.zone
    /\ elemSize[call.inst].width = Scenario.elem
    /\ elemSize[call.inst].height = Scenario.elem
    /\ mouseOffset[call.inst] = Origin
    /\ call.event.clientX = px /\ call.event.clientY = py

\* C7: with cellSize c > 0 and a drop zone found, calculatePosition equals
\* the reference on each axis: round-half-up to the grid, lower clamp, and on
\* overflow the largest multiple of c not exceeding zone size - element
\* size.  Zone 300x300, element 50x50, c = 50, offset (0,0): pointer (83,91)
\* gives (100,100) and pointer (290,290) gives (250,250).
C7_Pipeline ==
    (call.made /\ cellSize > 0 /\ ZoneFound) =>
        /\ call.position.x =
              Num(Reference(RawX, cellSize, elemSize[call.inst].width,
                            gridRect.width))
        /\ call.position.y =
              Num(Reference(RawY, cellSize, elemSize[call.inst].height,
                            gridRect.height))
        /\ (IsScenario(83, 91) /\ cellSize = 50
                => call.position = [x |-> Num(100), y |-> Num(100)])
        /\ (IsScenario(290, 290) /\ cellSize = 50
                => call.position = [x |-> Num(250), y |-> Num(250)])

\* the second documented scenario: both axes overflow and are floored
C7_Witness ==
    /\ IsScenario(290, 290) /\ cellSize = 50
    /\ OverflowsX /\ OverflowsY
    /\ call.position = [x |-> Num(250), y |-> Num(250)]

(***************************************************************************)
(* Properties of the gestures, checked under Spec.                         *)
(***************************************************************************)
\* C5 (as claimed): a drag event for which getDropZone finds no drop zone
\* leaves left and top of the dragged element as they were.
C5_NoTargetFreezes ==
    [][\A i \in Instances : \A event \in DragEvents(i) :
          (getDropZone(event) = NoNode /\ drag(i, event))
              => (left'[i] = left[i] /\ top'[i] = top[i])]_vars

\* neither bounds clamp applies to the target of event for instance i
Unclamped(i, event) ==
    LET sx == RoundToCell(Num(event.clientX + mouseOffset[i].x), cellSize)
        sy == RoundToCell(Num(event.clientY + mouseOffset[i].y), cellSize)
    IN  /\ ~JsLt(sx, Num(0))
        /\ ~JsLt(sy, Num(0))
        /\ ~JsGt(JsAdd(sx, Num(elemSize[i].width)), Num(gridRect.width))
        /\ ~JsGt(JsAdd(sy, Num(elemSize[i].height)), Num(gridRect.height))

NoJump(i, event) ==
    (Unclamped(i, event))'
        => (calculatePosition(i, event, getBoundingClientRect(i)))'
              = [x |-> Num(left[i]), y |-> Num(top[i])]

\* C6 (as claimed): after dragStart captured the offset at a pointer,
\* calculatePosition for the same pointer returns the element's left/top in
\* the grid whenever no bounds clamp applies, for every element position.
C6_OffsetPreservation ==
    [][\A i \in Instances : \A event \in GrabEvents(i) :
          (variant = "grid04" /\ dragStart(i, event)) => NoJump(i, event)]_vars

\* C6 (amended): the same, for cellSize c > 0 and an element whose left and
\* top are multiples of c.
C6_OffsetPreservationAligned ==
    [][\A i \in Instances : \A event \in GrabEvents(i) :
          (/\ variant = "grid04" /\ cellSize > 0
           /\ left[i] % cellSize = 0 /\ top[i] % cellSize = 0
           /\ dragStart(i, event)) => NoJump(i, event)]_vars

\* the pointer of the dragstart that captured the offset of instance i
GrabPointer(i) ==
    Event(getBoundingClientRect(i).left - gridRect.left - mouseOffset[i].x,
          getBoundingClientRect(i).top - gridRect.top - mouseOffset[i].y,
          nativeElement[i])

\* a grab of an element on the grid and away from the origin, for which the
\* resolver returns the element's own position
C6_Witness ==
    /\ variant = "grid04" /\ cellSize > 0
    /\ gesture.phase = "started"
    /\ left[gesture.src] > 0
    /\ left[gesture.src] % cellSize = 0 /\ top[gesture.src] % cellSize = 0
    /\ Unclamped(gesture.src, GrabPointer(gesture.src))
    /\ calculatePosition(gesture.src, GrabPointer(gesture.src),
                         getBoundingClientRect(gesture.src))
          = [x |-> Num(left[gesture.src]), y |-> Num(top[gesture.src])]

\* C8 (as claimed): no step of a gesture on A changes left or top of B.
C8_Independence ==
    [][((gesture.phase # "idle" /\ gesture.src = "A")
            \/ (gesture'.phase = "started" /\ gesture'.src = "A"))
          => (left'["B"] = left["B"] /\ top'["B"] = top["B"])]_vars

\* C9 (as claimed): a gesture starts without a lastPointer, so its first
\* drag event is never taken for a repetition of an earlier pointer and
\* always resolves a position.
C9_SessionLifetime ==
    [][\A i \in Instances : \A event \in DragEvents(i) :
          (gesture.phase = "started" /\ drag(i, event)) => call'.made]_vars

\* C11 (as claimed): after every drag event with a valid drop zone, left/top
\* of the dragged element equal calculatePosition of that event's pointer
\* and the offset captured by the dragstart of the gesture; and the offset
\* of an instance changes only in a dragstart on it.
C11_PositionTracksMoves ==
    [][/\ \A i \in Instances : \A event \in DragEvents(i) :
             (getDropZone(event) # NoNode /\ drag(i, event)) =>
                 [x |-> Num(left'[i]), y |-> Num(top'[i])]
                     = calculatePosition(i, event, getBoundingClientRect(i))
       /\ \A i \in Instances :
             mouseOffset'[i] # mouseOffset[i] =>
                 \E event \in GrabEvents(i) : dragStart(i, event)]_vars

RECURSIVE Up(_, _)
Up(n, k) ==
    IF k = 0 \/ n = NoNode THEN n ELSE Up(dom.parent[n], k - 1)

\* the steps from the target at which an element carries the attribute
MarkedSteps(target) ==
    {k \in 0..MaxTreeNodes :
        Up(target, k) # NoNode /\ dom.ngGrid[Up(target, k)]}

FirstMarked(target) ==
    IF MarkedSteps(target) = {} THEN NoNode
    ELSE Up(target, CHOOSE k \in MarkedSteps(target) :
                        \A j \in MarkedSteps(target) : k <= j)

\* C12: in every document getDropZone returns the first element on the path
\* from the target (inclusive) to the root that carries ngGrid, the innermost
\* of nested ones, and null exactly when no element of the path carries it;
\* canDrop answers whether there is one.
C12_DropZoneLookup ==
    call.made =>
        /\ call.zone = FirstMarked(call.event.target)
        /\ (call.zone = NoNode <=> MarkedSteps(call.event.target) = {})
        /\ (canDrop(call.event) <=> MarkedSteps(call.event.target) # {})

\* a lookup from an unmarked target below two nested marked elements
C12_Witness ==
    /\ call.made
    /\ call.zone # NoNode
    /\ call.zone # call.event.target
    /\ ~dom.ngGrid[call.event.target]
    /\ dom.parent[call.zone] # NoNode
    /\ dom.ngGrid[dom.parent[call.zone]]

(***************************************************************************)
(* Properties of the resolver that returns viewport coordinates, checked   *)
(* under SpecAbs.                                                          *)
(***************************************************************************)
\* C14 (as claimed): for an element that fits and starts anywhere inside
\* the drop zone, the returned point keeps the element inside the drop
\* zone: zone left <= x, x + element width <= zone left + zone width, and
\* the same for y.
C14_StaysInsideDropZone ==
    (call.made /\ variant = "abs03" /\ ZoneFound /\ ElementFits) =>
        /\ ~call.position.x.nan /\ ~call.position.y.nan
        /\ gridRect.left <= call.position.x.val
        /\ call.position.x.val + elemSize[call.inst].width
              <= gridRect.left + gridRect.width
        /\ gridRect.top <= call.position.y.val
        /\ call.position.y.val + elemSize[call.inst].height
              <= gridRect.top + gridRect.height

(***************************************************************************)
(* Monotonicity of the resolver, checked under SpecCalc.                   *)
(***************************************************************************)
\* the events that differ from the last call's only by a pointer further
\* right (further down)
FurtherRight ==
    {e \in CalcEvents : /\ e.target = call.event.target
                        /\ e.clientY = call.event.clientY
                        /\ e.clientX >= call.event.clientX}
FurtherDown ==
    {e \in CalcEvents : /\ e.target = call.event.target
                        /\ e.clientX = call.event.clientX
                        /\ e.clientY >= call.event.clientY}
Again(e) == calculatePosition(call.inst, e, getBoundingClientRect(call.inst))

\* C15: with a positive cell size, a drop zone found and an element that
\* fits, moving the pointer further right never yields a smaller x and
\* moving it further down never yields a smaller y, everything else equal.
C15_Monotone ==
    (call.made /\ cellSize > 0 /\ ZoneFound /\ ElementFits) =>
        /\ \A e \in FurtherRight :
              ~Again(e).x.nan /\ Again(e).x.val >= call.position.x.val
        /\ \A e \in FurtherDown :
              ~Again(e).y.nan /\ Again(e).y.val >= call.position.y.val

\* a call below the upper bound, with a pointer further right that moves
\* the element and one that runs into the upper-bound branch
C15_Witness ==
    /\ call.made /\ cellSize > 0 /\ ZoneFound /\ ElementFits
    /\ ~OverflowsX
    /\ \E e \in FurtherRight : Again(e).x.val > call.position.x.val
    /\ \E e \in FurtherRight :
          ClampLow(RoundToCell(Num(e.clientX + mouseOffset[call.inst].x),
                               cellSize)).val
              + elemSize[call.inst].width > gridRect.width

====
